---- MODULE Spec2Model ----
(***************************************************************************)
(* Model of the resilient fetch / fallback pipeline of src/main.py:        *)
(* ProxyManager (the proxy pool), ImageSearchAPI._make_request (the        *)
(* request executor), the two extractors and the search orchestrator.      *)
(*                                                                         *)
(* Interleaving granularity: a thread may be pre-empted wherever it waits  *)
(* (an outbound request, a sleep) and between the read and the write of    *)
(* the unsynchronised read-modify-write of rate_limit_count.  The          *)
(* ProxyManager methods are taken as single steps.                         *)
(***************************************************************************)
EXTENDS Integers, Sequences, FiniteSets, TLC

\* ------------------------------------------------------------------ bounds
MaxPool == 2          \* longest proxy list the remote source returns
MaxCount == 4         \* throttling is no longer injected once the counter is here
MaxCalls == 4         \* _make_request calls made one after the other
ConcCalls == 1        \* _make_request calls each thread makes when several run at once
SearchCalls == 1      \* search_images calls made one after the other
FetchCalls == 2       \* fetch_image_from_url calls made one after the other
MaxRows == 2          \* rows in one page of the primary provider
MaxResults == 3       \* largest max_results asked for
MaxImgs == 2          \* img elements in the page of the fallback provider
MaxUrlLen == 3        \* pieces in a URL handed to _normalize_url
MaxApply == 3         \* successive applications of _normalize_url

\* -------------------------------------------------------- program constants
max_retries == 3
ProxyThreshold == 2

Endpoints == {"p1", "p2"}
None == "None"
Threads == {"t1", "t2"}

Max(a, b) == IF a >= b THEN a ELSE b
Min(a, b) == IF a <= b THEN a ELSE b
Range(s) == {s[i] : i \in 1..Len(s)}

\* Every list load_proxies can leave in self.proxies: the 'http://' lines of
\* the remote file in any order (duplicates are not removed), or the empty
\* list when the download fails or has no such line.
RECURSIVE SeqsUpTo(_, _)
SeqsUpTo(S, n) ==
    IF n = 0 THEN {<<>>}
    ELSE LET shorter == SeqsUpTo(S, n - 1)
         IN shorter \cup {Append(s, e) : s \in {x \in shorter : Len(x) = n - 1}, e \in S}
LoadOutcomes == SeqsUpTo(Endpoints, MaxPool)

VARIABLES
    proxies,              \* ProxyManager.proxies
    current_proxy_index,  \* ProxyManager.current_proxy_index (0-based)
    failed_proxies,       \* ProxyManager.failed_proxies
    rate_limit_count,     \* ImageSearchAPI.rate_limit_count
    acq,                  \* outcome of the latest get_proxy call
    th,                   \* per thread: position in and locals of _make_request
    gh,                   \* per thread: what the current _make_request call has done so far
    calls,                \* per thread: top-level calls it has still to make
    crossed,              \* whether rate_limit_count has ever exceeded 2
    sr,                   \* per thread: position in and locals of search_images
    inp                   \* what the upstream providers answer, and max_results

poolVars == <<proxies, current_proxy_index, failed_proxies>>
vars == <<proxies, current_proxy_index, failed_proxies, rate_limit_count, acq, th, gh,
          calls, crossed, sr, inp>>

\* ------------------------------------------------------------ ProxyManager

\* len(self.failed_proxies) > len(self.proxies) * 0.8
TooManyFailed(P, F) == 5 * Cardinality(F) > 4 * Len(P)

\* ScanLoop without the 'proxy not in self.failed_proxies' test.
ScanLoopNoCheck(P, i, F, n) ==
    IF n < Len(P)
    THEN IF i >= Len(P)
         THEN [how |-> "index", idx |-> i, ret |-> None]
         ELSE [how |-> "found", idx |-> i, ret |-> P[i + 1]]
    ELSE [how |-> "exhausted", idx |-> i, ret |-> None]

\* The scan loop of get_proxy.  P is the list, i the cursor, F the failed
\* set, n the number of entries examined so far.  The result says how the
\* loop ended: "found" (return proxy), "index" (IndexError on self.proxies[i])
\* or "exhausted" (fell out of the while loop).
RECURSIVE ScanLoop(_, _, _, _)
ScanLoop(P, i, F, n) ==
    IF n < Len(P)
    THEN IF i >= Len(P)
         THEN [how |-> "index", idx |-> i, ret |-> None]
         ELSE IF P[i + 1] \notin F
              THEN [how |-> "found", idx |-> i, ret |-> P[i + 1]]
              ELSE ScanLoop(P, (i + 1) % Len(P), F, n + 1)
    ELSE [how |-> "exhausted", idx |-> i, ret |-> None]

\* get_proxy that calls load_proxies when the list is empty.
GetProxyReloadsEmpty(P, i, F, L1, L2) ==
    IF P = <<>>
    THEN [proxies |-> L2, idx |-> i, failed |-> {},
          ret |-> IF L2 = <<>> THEN None ELSE L2[1],
          raised |-> FALSE, reloads |-> 1]
    ELSE LET r1 == TooManyFailed(P, F)
             P1 == IF r1 THEN L1 ELSE P
             F1 == IF r1 THEN {} ELSE F
             n1 == IF r1 THEN 1 ELSE 0
             s  == ScanLoop(P1, i, F1, 0)
         IN CASE s.how = "found" ->
                   [proxies |-> P1, idx |-> s.idx, failed |-> F1, ret |-> s.ret,
                    raised |-> FALSE, reloads |-> n1]
              [] s.how = "index" ->
                   [proxies |-> P1, idx |-> s.idx, failed |-> F1, ret |-> None,
                    raised |-> TRUE, reloads |-> n1]
              [] OTHER ->
                   [proxies |-> L2, idx |-> s.idx, failed |-> {},
                    ret |-> IF L2 = <<>> THEN None ELSE L2[1],
                    raised |-> FALSE, reloads |-> n1 + 1]

\* get_proxy as one step.  L1 is what the first reload (80% rule) would load,
\* L2 what the second reload (all failed) would load.
GetProxy(P, i, F, L1, L2) ==
    IF P = <<>>
    THEN [proxies |-> P, idx |-> i, failed |-> F, ret |-> None,
          raised |-> FALSE, reloads |-> 0]
    ELSE LET r1 == TooManyFailed(P, F)
             P1 == IF r1 THEN L1 ELSE P
             F1 == IF r1 THEN {} ELSE F
             n1 == IF r1 THEN 1 ELSE 0
             s  == ScanLoop(P1, i, F1, 0)
         IN CASE s.how = "found" ->
                   [proxies |-> P1, idx |-> s.idx, failed |-> F1, ret |-> s.ret,
                    raised |-> FALSE, reloads |-> n1]
              [] s.how = "index" ->
                   [proxies |-> P1, idx |-> s.idx, failed |-> F1, ret |-> None,
                    raised |-> TRUE, reloads |-> n1]
              [] OTHER ->
                   [proxies |-> L2, idx |-> s.idx, failed |-> {},
                    ret |-> IF L2 = <<>> THEN None ELSE L2[1],
                    raised |-> FALSE, reloads |-> n1 + 1]

\* What the remote source may answer to the reloads this call of get_proxy
\* makes (a single placeholder where it makes none).
FirstLoads(P, F) ==
    IF P /= <<>> /\ TooManyFailed(P, F) THEN LoadOutcomes ELSE {<<>>}
SecondLoads(P, i, F, L1) ==
    IF P /= <<>> /\ ScanLoop(IF TooManyFailed(P, F) THEN L1 ELSE P, i,
                            IF TooManyFailed(P, F) THEN {} ELSE F, 0).how = "exhausted"
    THEN LoadOutcomes ELSE {<<>>}

\* mark_proxy_failed
MarkFailed(F, proxy) == IF proxy /= None THEN F \cup {proxy} ELSE F

\* rotate_proxy
Rotate(P, i) == IF P /= <<>> THEN (i + 1) % Len(P) ELSE i

NoAcq == [called |-> FALSE, ret |-> None, raised |-> FALSE, reloads |-> 0]

\* ------------------------------------------- locals of one _make_request
\* pc: "idle" (no call yet), "attempt" (top of the for loop), "request"
\* (request in flight), "inc" / "inc2" / "dec" (counter read, write pending),
\* "done" (call ended: result is "response" or the name of the exception).
IdleThread ==
    [pc |-> "idle", attempt |-> 0, current_proxy |-> None, kwargs |-> None,
     tmp |-> 0, resp |-> 0, exc |-> "none", result |-> "none"]

\* Bookkeeping of one call: requests issued, sleeps taken, the sleep that
\* led to the current iteration, whether the current attempt called
\* get_proxy, and whether every outcome so far was a throttling status
\* (clean).  While the call is clean it also keeps the counter at entry, the
\* number of throttling statuses and the number of rotate_proxy calls.
\* rejected says that the latest request of the call came back with a
\* status raise_for_status rejects other than 429, 403 and 503, proxyError
\* that it failed with requests.exceptions.ProxyError; reloads counts the
\* load_proxies calls of the get_proxy of the current attempt.
FreshCall(c) ==
    [init |-> c, nreq |-> 0, nrot |-> 0, nsleep |-> 0, nthrot |-> 0,
     clean |-> TRUE, lastSleep |-> "none", consulted |-> FALSE, rejected |-> FALSE,
     proxyError |-> FALSE, reloads |-> 0]
Unclean(g) == [g EXCEPT !.clean = FALSE, !.init = 0, !.nrot = 0, !.nthrot = 0]
Rotated(g) == IF g.clean THEN [g EXCEPT !.nrot = @ + 1] ELSE g
Throttled(g) == IF g.clean THEN [g EXCEPT !.nthrot = @ + 1] ELSE g

\* Locals of search_images and of the extractor it is in: stage is "none"
\* (not in a search), "vqd", "page", "bing" (waiting for that request) or
\* "ret" (returned) or "raised" (left by an exception).  results and cache
\* are those of the extractor, engine the name search_images returns;
\* primary and fallback count the runs of the two extractors, primaryEmpty
\* and fallbackEmpty say whether what they returned was empty, requests
\* counts the _make_request calls, fetched the pages of the primary provider
\* whose request returned a response, parsed those of them that were
\* processed to the end, and absorbed says whether an
\* exception has been caught.  For fetch_image_from_url the stage is "fetch"
\* (waiting for its request) or "fetched" (returned); data and error are
\* the pair it returns.  got is what the request of fetch_image_from_url,
\* or of search_bing_images, brought.
NoHeader == [present |-> FALSE, val |-> <<>>]
NoGot == [res |-> "none", ct |-> NoHeader, read |-> FALSE]
NoSearch ==
    [stage |-> "none", page |-> 0, results |-> <<>>, cache |-> {},
     engine |-> "", primary |-> 0, fallback |-> 0, primaryEmpty |-> TRUE,
     fallbackEmpty |-> TRUE, requests |-> 0, fetched |-> 0, parsed |-> 0,
     absorbed |-> FALSE,
     got |-> NoGot, data |-> None, error |-> None]
NoInput == [pages |-> <<>>, bing |-> [scripts |-> <<>>, imgs |-> <<>>], max_results |-> 0]

\* --------------------------------------------- the pool operations alone

InitPool ==
    /\ proxies \in LoadOutcomes
    /\ current_proxy_index = 0
    /\ failed_proxies = {}
    /\ rate_limit_count = 0
    /\ acq = NoAcq
    /\ th = [t \in Threads |-> IdleThread]
    /\ gh = [t \in Threads |-> FreshCall(0)]
    /\ calls = [t \in Threads |-> 0]
    /\ crossed = FALSE
    /\ sr = [t \in Threads |-> NoSearch]
    /\ inp = NoInput

PoolLoad ==
    /\ proxies' \in LoadOutcomes
    /\ acq' = NoAcq
    /\ UNCHANGED <<current_proxy_index, failed_proxies, rate_limit_count, th, gh, calls, crossed, sr, inp>>

PoolAcquire ==
    \E L1 \in FirstLoads(proxies, failed_proxies) :
    \E L2 \in SecondLoads(proxies, current_proxy_index, failed_proxies, L1) :
        LET g == GetProxy(proxies, current_proxy_index, failed_proxies, L1, L2)
        IN /\ proxies' = g.proxies
           /\ current_proxy_index' = g.idx
           /\ failed_proxies' = g.failed
           /\ acq' = [called |-> TRUE, ret |-> g.ret, raised |-> g.raised,
                      reloads |-> g.reloads]
           /\ UNCHANGED <<rate_limit_count, th, gh, calls, crossed, sr, inp>>

PoolMarkFailed ==
    \E e \in Endpoints :
        /\ failed_proxies' = MarkFailed(failed_proxies, e)
        /\ acq' = NoAcq
        /\ UNCHANGED <<proxies, current_proxy_index, rate_limit_count, th, gh, calls, crossed, sr, inp>>

PoolRotate ==
    /\ current_proxy_index' = Rotate(proxies, current_proxy_index)
    /\ acq' = NoAcq
    /\ UNCHANGED <<proxies, failed_proxies, rate_limit_count, th, gh, calls, crossed, sr, inp>>

NextPool == PoolLoad \/ PoolAcquire \/ PoolMarkFailed \/ PoolRotate

SpecPool == InitPool /\ [][NextPool]_vars

\* ------------------------------------------ ImageSearchAPI._make_request
ThrottleStatus == {429, 403, 503}
\* 200; 204 stands for any other status raise_for_status accepts; 404 for
\* any other status it rejects.
Statuses == {200, 204, 404} \cup ThrottleStatus

\* Continue that retries without consuming an attempt.
ContinueSameAttempt(r, kind) ==
    [r EXCEPT !.pc = "attempt", !.tmp = 0, !.resp = 0, !.exc = "none"]

\* Take a backoff sleep of the given kind and go to the next iteration.
Continue(r, kind) ==
    [r EXCEPT !.pc = "attempt", !.attempt = @ + 1, !.tmp = 0, !.resp = 0, !.exc = "none"]
Slept(g, kind) ==
    [g EXCEPT !.nsleep = @ + 1, !.lastSleep = kind, !.consulted = FALSE, !.reloads = 0]

\* The request of the attempt is over.
Answered(g) == [g EXCEPT !.reloads = 0]

\* Leave _make_request: with the response, or with the exception raised.
Finish(r, res) ==
    [r EXCEPT !.pc = "done", !.result = res, !.tmp = 0, !.exc = "none"]

\* A call of _make_request begins (max_retries = 3, current_proxy = None).
Call(t) ==
    /\ th[t].pc \in {"idle", "done"}
    /\ sr[t].stage = "none"
    /\ th' = [th EXCEPT ![t] = [IdleThread EXCEPT !.pc = "attempt"]]
    /\ gh' = [gh EXCEPT ![t] = FreshCall(rate_limit_count)]
    /\ calls[t] > 0
    /\ calls' = [calls EXCEPT ![t] = @ - 1]
    /\ UNCHANGED <<crossed, sr, inp>>
    /\ UNCHANGED <<proxies, current_proxy_index, failed_proxies, rate_limit_count, acq>>

\* The threshold test with >= in place of >.
UseProxyEarly(c) == c >= ProxyThreshold

\* rate_limit_count > 2: the attempt consults the pool
UseProxy(c) == c > ProxyThreshold

\* Top of one iteration: decide on a proxy, then send the request.
AttemptStart(t) ==
    /\ UNCHANGED <<calls, sr, inp, crossed>>
    /\ th[t].pc = "attempt"
    /\ th[t].attempt < max_retries
    /\ UNCHANGED <<rate_limit_count, acq>>
    /\ IF UseProxy(rate_limit_count)
       THEN \E L1 \in FirstLoads(proxies, failed_proxies) :
            \E L2 \in SecondLoads(proxies, current_proxy_index, failed_proxies, L1) :
              LET g == GetProxy(proxies, current_proxy_index, failed_proxies, L1, L2)
                  b == [gh[t] EXCEPT !.consulted = TRUE, !.lastSleep = "none",
                                     !.rejected = FALSE, !.proxyError = FALSE,
                                     !.reloads = g.reloads]
              IN /\ proxies' = g.proxies
                 /\ current_proxy_index' = g.idx
                 /\ failed_proxies' = g.failed
                 /\ IF g.raised
                    THEN /\ th' = [th EXCEPT ![t] = Finish(@, "IndexError")]
                         /\ gh' = [gh EXCEPT ![t] = b]
                    ELSE /\ th' = [th EXCEPT ![t] =
                                     [@ EXCEPT !.pc = "request",
                                               !.current_proxy = g.ret,
                                               !.kwargs = IF g.ret /= None THEN g.ret ELSE @]]
                         /\ gh' = [gh EXCEPT ![t] = [b EXCEPT !.nreq = @ + 1]]
       ELSE /\ th' = [th EXCEPT ![t].pc = "request"]
            /\ gh' = [gh EXCEPT ![t] = [@ EXCEPT !.consulted = FALSE, !.lastSleep = "none",
                                                 !.rejected = FALSE, !.proxyError = FALSE,
                                                 !.reloads = 0, !.nreq = @ + 1]]
            /\ UNCHANGED <<proxies, current_proxy_index, failed_proxies>>

\* except requests.exceptions.RequestException, entered with counter value c;
\* rl says whether str(e) contains "429" or "rate limit".  Gives the new
\* locals and bookkeeping of the thread (the counter write, if any, is a
\* later step).
OnRequestException(r, g, c, rl, kind) ==
    IF rl
    THEN [r |-> [r EXCEPT !.pc = "inc2", !.tmp = c, !.exc = kind], g |-> g]
    ELSE IF r.attempt < max_retries - 1
         THEN [r |-> Continue(r, "1"), g |-> Slept(g, "1")]
         ELSE [r |-> Finish(r, kind), g |-> g]

\* str(e) of the HTTPError of raise_for_status starts with the status, so a
\* 429 always matches; for another status the URL or reason may match.
MessageMatches(status) == IF status = 429 THEN {TRUE} ELSE BOOLEAN

\* The request of the attempt comes back with a status.
RespondStatus(t) ==
    /\ UNCHANGED <<calls, sr, inp, crossed>>
    /\ th[t].pc = "request"
    /\ UNCHANGED <<proxies, current_proxy_index, failed_proxies, rate_limit_count, acq>>
    /\ \E s \in Statuses :
         CASE s \in ThrottleStatus ->
                /\ rate_limit_count < MaxCount
                /\ th' = [th EXCEPT ![t] = [@ EXCEPT !.pc = "inc", !.resp = s,
                                                     !.tmp = rate_limit_count]]
                /\ gh' = [gh EXCEPT ![t] = Throttled(Answered(@))]
           [] s = 200 ->
                /\ th' = [th EXCEPT ![t] = [@ EXCEPT !.pc = "dec", !.resp = s,
                                                     !.tmp = rate_limit_count]]
                /\ gh' = [gh EXCEPT ![t] = Answered(@)]
           [] s = 204 ->
                /\ th' = [th EXCEPT ![t] = Finish([@ EXCEPT !.resp = s], "response")]
                /\ gh' = [gh EXCEPT ![t] = Unclean(Answered(@))]
           [] OTHER ->
                \E rl \in MessageMatches(s) :
                    LET h == OnRequestException([th[t] EXCEPT !.resp = s],
                                                [Unclean(Answered(gh[t])) EXCEPT !.rejected = TRUE],
                                                rate_limit_count, rl, "HTTPError")
                    IN /\ rl => rate_limit_count < MaxCount
                       /\ th' = [th EXCEPT ![t] = h.r]
                       /\ gh' = [gh EXCEPT ![t] = h.g]

\* The request of the attempt fails with requests.exceptions.ProxyError.
RespondProxyError(t) ==
    /\ UNCHANGED <<calls, sr, inp, crossed>>
    /\ th[t].pc = "request"
    /\ failed_proxies' = MarkFailed(failed_proxies, th[t].current_proxy)
    /\ current_proxy_index' = Rotate(proxies, current_proxy_index)
    /\ UNCHANGED <<proxies, rate_limit_count, acq>>
    /\ LET g == [Unclean(Answered(gh[t])) EXCEPT !.proxyError = TRUE]
       IN IF th[t].attempt < max_retries - 1
          THEN /\ th' = [th EXCEPT ![t] = Continue(@, "1")]
               /\ gh' = [gh EXCEPT ![t] = Slept(g, "1")]
          ELSE /\ th' = [th EXCEPT ![t] = Finish(@, "ProxyError")]
               /\ gh' = [gh EXCEPT ![t] = g]

\* The request fails with another RequestException (timeout, connection
\* error, ...), whose message may or may not look rate-limit related.
RespondRequestException(t) ==
    /\ UNCHANGED <<calls, sr, inp, crossed>>
    /\ th[t].pc = "request"
    /\ UNCHANGED <<proxies, current_proxy_index, failed_proxies, rate_limit_count, acq>>
    /\ \E rl \in BOOLEAN :
         LET h == OnRequestException(th[t], Unclean(Answered(gh[t])),
                                     rate_limit_count, rl, "RequestException")
         IN /\ rl => rate_limit_count < MaxCount
            /\ th' = [th EXCEPT ![t] = h.r]
            /\ gh' = [gh EXCEPT ![t] = h.g]

\* self.rate_limit_count += 1 after a throttling status (the write), then
\* mark, rotate, sleep and continue, or on the last attempt fall through to
\* raise_for_status and the RequestException handler.
IncWrite(t) ==
    /\ UNCHANGED <<calls, sr, inp>>
    /\ th[t].pc = "inc"
    /\ rate_limit_count' = th[t].tmp + 1
    /\ crossed' = (crossed \/ th[t].tmp + 1 > 2)
    /\ failed_proxies' = MarkFailed(failed_proxies, th[t].current_proxy)
    /\ UNCHANGED <<proxies, acq>>
    /\ IF th[t].attempt < max_retries - 1
       THEN /\ current_proxy_index' = Rotate(proxies, current_proxy_index)
            /\ th' = [th EXCEPT ![t] = Continue(@, "2-5")]
            /\ gh' = [gh EXCEPT ![t] = Slept(Rotated(@), "2-5")]
       ELSE /\ UNCHANGED current_proxy_index
            /\ \E rl \in MessageMatches(th[t].resp) :
                 LET h == OnRequestException(th[t], gh[t], th[t].tmp + 1, rl, "HTTPError")
                 IN /\ th' = [th EXCEPT ![t] = h.r]
                    /\ gh' = [gh EXCEPT ![t] = h.g]

\* self.rate_limit_count += 1 inside the RequestException handler (the
\* write), then mark, and rotate, sleep and continue or re-raise.
Inc2Write(t) ==
    /\ UNCHANGED <<calls, sr, inp>>
    /\ th[t].pc = "inc2"
    /\ rate_limit_count' = th[t].tmp + 1
    /\ crossed' = (crossed \/ th[t].tmp + 1 > 2)
    /\ failed_proxies' = MarkFailed(failed_proxies, th[t].current_proxy)
    /\ UNCHANGED <<proxies, acq>>
    /\ IF th[t].attempt < max_retries - 1
       THEN /\ current_proxy_index' = Rotate(proxies, current_proxy_index)
            /\ th' = [th EXCEPT ![t] = Continue(@, "3-7")]
            /\ gh' = [gh EXCEPT ![t] = Slept(Rotated(@), "3-7")]
       ELSE /\ UNCHANGED current_proxy_index
            /\ th' = [th EXCEPT ![t] = Finish(@, @.exc)]
            /\ UNCHANGED gh

\* Decrements that subtract 2, or that do not floor at 0.
DecrementByTwo(c) == Max(0, c - 2)
DecrementNoFloor(c) == c - 1
\* max(0, self.rate_limit_count - 1)
Decrement(c) == Max(0, c - 1)

\* self.rate_limit_count = max(0, self.rate_limit_count - 1) after a 200 (the
\* write); raise_for_status passes and the response is returned.
DecWrite(t) ==
    /\ UNCHANGED <<calls, sr, inp>>
    /\ th[t].pc = "dec"
    /\ rate_limit_count' = Decrement(th[t].tmp)
    /\ crossed' = (crossed \/ Decrement(th[t].tmp) > 2)
    /\ th' = [th EXCEPT ![t] = Finish(@, "response")]
    /\ UNCHANGED <<proxies, current_proxy_index, failed_proxies, acq, gh>>

\* State after ImageSearchAPI() has been constructed.
Constructed ==
    /\ proxies \in LoadOutcomes
    /\ current_proxy_index = 0
    /\ failed_proxies = {}
    /\ rate_limit_count = 0
    /\ acq = NoAcq
    /\ th = [t \in Threads |-> IdleThread]
    /\ gh = [t \in Threads |-> FreshCall(0)]
    /\ crossed = FALSE
    /\ sr = [t \in Threads |-> NoSearch]

Init ==
    /\ Constructed
    /\ calls = [t \in Threads |-> ConcCalls]
    /\ inp = NoInput
InitSeq ==
    /\ Constructed
    /\ calls = [t \in Threads |-> IF t = "t1" THEN MaxCalls ELSE 0]
    /\ inp = NoInput

\* The steps inside _make_request.
Exec(t) ==
    \/ AttemptStart(t)
    \/ RespondStatus(t)
    \/ RespondProxyError(t)
    \/ RespondRequestException(t)
    \/ IncWrite(t)
    \/ Inc2Write(t)
    \/ DecWrite(t)

Step(t) == Call(t) \/ Exec(t)

\* Calls of _make_request from several threads at once.
Next == \E t \in Threads : Step(t)
Spec == Init /\ [][Next]_vars

\* Calls of _make_request one after the other.
NextSeq == \E t \in {"t1"} : Step(t)
SpecSeq == InitSeq /\ [][NextSeq]_vars


\* ------------------------------------------------------------- URLs
\* A URL is the sequence of its pieces: "https:", "http:", "//", "data:",
\* "&", "\\u0026" and opaque rest pieces.  "https://a" is
\* <<"https:", "//", "a">>, "//a" is <<"//", "a">>, "" is <<>>.
StartsWith(u, p) == Len(u) >= Len(p) /\ SubSeq(u, 1, Len(p)) = p

\* _normalize_url that prepends only "https:" to a URL without a scheme.
NormalizeUrlShortPrefix(u) ==
    IF u = <<>> THEN <<>>
    ELSE IF StartsWith(u, <<"//">>) THEN <<"https:">> \o u
    ELSE IF ~(StartsWith(u, <<"http:", "//">>) \/ StartsWith(u, <<"https:", "//">>))
         THEN <<"https:">> \o u
         ELSE u

\* _normalize_url
NormalizeUrl(u) ==
    IF u = <<>> THEN <<>>
    ELSE IF StartsWith(u, <<"//">>) THEN <<"https:">> \o u
    ELSE IF ~(StartsWith(u, <<"http:", "//">>) \/ StartsWith(u, <<"https:", "//">>))
         THEN <<"https:", "//">> \o u
         ELSE u

\* ------------------------------------- search_duckduckgo_images (primary)
\* A row of the "results" list of i.js: image, thumbnail and url are URLs
\* (<<>> when missing or empty); height and width are [kind, val] with kind
\* "int" (val is what int() gives), "missing" (the key is absent) or "bad"
\* (a value int() rejects).
IntOrZero(d) == IF d.kind = "int" THEN d.val ELSE 0

\* The 'for row in page_data' loop over rows[k..], page number pg.  Gives the
\* results and cache it leaves, and whether it left by an exception.
RECURSIVE ProcessRows(_, _, _, _, _, _)
ProcessRows(rows, k, pg, results, cache, max) ==
    IF k > Len(rows) \/ Len(results) >= max
    THEN [results |-> results, cache |-> cache, raised |-> FALSE]
    ELSE LET row == rows[k]
         IN IF row.image /= <<>> /\ row.image \notin cache
            THEN IF row.height.kind = "bad" \/ row.width.kind = "bad"
                 THEN [results |-> results, cache |-> cache \cup {row.image},
                       raised |-> TRUE]
                 ELSE ProcessRows(rows, k + 1, pg,
                        Append(results,
                               [title |-> "t",
                                image |-> NormalizeUrl(row.image),
                                thumbnail |-> NormalizeUrl(row.thumbnail),
                                url |-> NormalizeUrl(row.url),
                                height |-> IntOrZero(row.height),
                                width |-> IntOrZero(row.width),
                                source |-> "DuckDuckGo",
                                at |-> <<pg, k>>]),
                        cache \cup {row.image}, max)
            ELSE ProcessRows(rows, k + 1, pg, results, cache, max)

\* One page of the primary provider: the body is [ok, rows], ok being FALSE
\* when response.json() or data.get fails.
ProcessPage(body, pg, results, cache, max) ==
    IF ~body.ok
    THEN [results |-> results, cache |-> cache, raised |-> TRUE]
    ELSE ProcessRows(body.rows, 1, pg, results, cache, max)

\* ------------------------------------------ search_bing_images (fallback)
\* The page is [scripts, imgs].  A script is [marker, matches]: whether its
\* text contains 'mediaurl', and the (murl, turl, t) triples the pattern
\* finds in it.  An img is [src, width, height, alt]; width and height are
\* [kind, val] with kind "num" (a digit string of value val), "absent" or
\* "text" (a string that is not all digits); alt is "absent" or a text.
Unescape(u) == [i \in 1..Len(u) |-> IF u[i] = "\\u0026" THEN "&" ELSE u[i]]
DefaultTitle == "query image"
Take(q, n) == SubSeq(q, 1, Min(Len(q), Max(n, 0)))

BingResult(title, image, thumb, h, w, source, at) ==
    [title |-> title, image |-> NormalizeUrl(image), thumbnail |-> NormalizeUrl(thumb),
     url |-> <<"https:", "//", "www.bing.com/images/search">>,
     height |-> h, width |-> w, source |-> source, at |-> at]

\* 'for match in matches[:max_results]' of one script, from match k on
RECURSIVE ScriptMatches(_, _, _, _, _)
ScriptMatches(matches, k, sc, results, max) ==
    IF k > Len(matches) \/ Len(results) >= max
    THEN results
    ELSE ScriptMatches(matches, k + 1, sc,
            Append(results,
                   BingResult(IF matches[k].t = "" THEN DefaultTitle ELSE matches[k].t,
                              Unescape(matches[k].murl), Unescape(matches[k].turl),
                              0, 0, "Bing", <<sc, k>>)),
            max)

\* Method 1: 'for script in script_tags', from script sc on
RECURSIVE StrategyA(_, _, _)
StrategyA(scripts, sc, max) ==
    IF sc > Len(scripts)
    THEN <<>>
    ELSE LET found == IF scripts[sc].marker
                      THEN ScriptMatches(Take(scripts[sc].matches, max), 1, sc, <<>>, max)
                      ELSE <<>>
         IN IF found /= <<>> THEN found ELSE StrategyA(scripts, sc + 1, max)

Blacklisted(src) == \E i \in 1..Len(src) : src[i] \in {"icon", "logo", "button", "pixel", "blank"}
\* img.get('width', '0'): an absent attribute reads as the digit string '0'
IsDigit(d) == d.kind \in {"num", "absent"}
DimValue(d) == IF d.kind = "num" THEN d.val ELSE 0
\* TooSmall that skips only when both dimensions are below 100.
TooSmallBoth(img) ==
    /\ IsDigit(img.width) /\ IsDigit(img.height)
    /\ (DimValue(img.width) < 100 /\ DimValue(img.height) < 100)
TooSmall(img) ==
    /\ IsDigit(img.width) /\ IsDigit(img.height)
    /\ (DimValue(img.width) < 100 \/ DimValue(img.height) < 100)

\* Method 2: 'for img in img_tags[:max_results * 2]', from img k on
RECURSIVE StrategyB(_, _, _, _)
StrategyB(imgs, k, results, max) ==
    IF k > Len(imgs) \/ Len(results) >= max
    THEN results
    ELSE LET img == imgs[k]
         IN IF \/ img.src = <<>>
               \/ StartsWith(img.src, <<"data:">>)
               \/ Blacklisted(img.src)
               \/ TooSmall(img)
            THEN StrategyB(imgs, k + 1, results, max)
            ELSE StrategyB(imgs, k + 1,
                    Append(results,
                           BingResult(IF img.alt = "absent" THEN DefaultTitle ELSE img.alt,
                                      img.src, img.src,
                                      DimValue(img.height), DimValue(img.width),
                                      "Bing (fallback)", <<0, k>>)),
                    max)

\* BingExtract that runs the second method whatever the first one found.
BingExtractBoth(page, max) ==
    StrategyA(page.scripts, 1, max) \o StrategyB(Take(page.imgs, max * 2), 1, <<>>, max)

\* What search_bing_images builds from a fetched page.
BingExtract(page, max) ==
    LET a == StrategyA(page.scripts, 1, max)
    IN IF a /= <<>> THEN a ELSE StrategyB(Take(page.imgs, max * 2), 1, <<>>, max)

\* ------------------------------------------------------- search_images
\* 'except Exception' with only the requests exceptions caught.
ExceptRequestsOnly(e) == e \in {"HTTPError", "ProxyError", "RequestException"}

\* 'except Exception' (lines 258, 321, 328, 442): whether it catches e.
\* Every exception here is one: those _make_request lets through and the
\* ValueError / TypeError / ValidationError of the parsing.
ExceptException(e) ==
    e \in {"HTTPError", "ProxyError", "RequestException", "IndexError", "ValueError"}

\* An exception leaves search_images.
Raised(r) == [r EXCEPT !.stage = "raised"]

\* PrimaryReturned that takes the primary results only if there are two.
PrimaryReturnedNeedsTwo(r) ==
    IF Len(r.results) > 1
    THEN [r EXCEPT !.stage = "ret", !.engine = "DuckDuckGo",
                   !.primaryEmpty = (r.results = <<>>)]
    ELSE [r EXCEPT !.stage = "bing", !.fallback = @ + 1, !.requests = @ + 1,
                   !.primaryEmpty = (r.results = <<>>)]

\* search_duckduckgo_images returns r.results: search_images returns them
\* if there are any, else goes on to search_bing_images.
PrimaryReturned(r) ==
    IF r.results /= <<>>
    THEN [r EXCEPT !.stage = "ret", !.engine = "DuckDuckGo",
                   !.primaryEmpty = (r.results = <<>>)]
    ELSE [r EXCEPT !.stage = "bing", !.fallback = @ + 1, !.requests = @ + 1,
                   !.primaryEmpty = (r.results = <<>>)]

\* The except clause of search_duckduckgo_images (line 328): return [].
PrimaryOuterExcept(r, e) ==
    IF ExceptException(e)
    THEN PrimaryReturned([r EXCEPT !.results = <<>>, !.absorbed = TRUE])
    ELSE Raised(r)

\* PageLoop that asks for the next page also when max results are there.
PageLoopNoBreak(r, pg, max) ==
    IF pg <= 2 /\ Len(r.results) <= max
    THEN [r EXCEPT !.stage = "page", !.page = pg, !.requests = @ + 1]
    ELSE PrimaryReturned(r)

\* Top of 'for page in [0, 100]' for page number pg (1 or 2, 3 past the end).
PageLoop(r, pg, max) ==
    IF pg <= 2 /\ Len(r.results) < max
    THEN [r EXCEPT !.stage = "page", !.page = pg, !.requests = @ + 1]
    ELSE PrimaryReturned(r)

\* search_images -> search_duckduckgo_images -> _get_vqd
SearchEntered == [NoSearch EXCEPT !.stage = "vqd", !.primary = 1, !.requests = 1]

\* _get_vqd is over, res being how its _make_request ended: with a token
\* from the page, or with the synthetic one when the exception is caught.
AfterVqd(r, res, max) ==
    IF res = "response"
    THEN PageLoop(r, 1, max)
    ELSE IF ExceptException(res)
         THEN PageLoop([r EXCEPT !.absorbed = TRUE], 1, max)
         ELSE PrimaryOuterExcept(r, res)

\* The request of page r.page is over, res being how it ended.  Its rows
\* are processed, or the page is skipped when the request or the
\* processing raised.
AfterPage(r, res, pages, max) ==
    LET p == IF res = "response"
             THEN ProcessPage(pages[r.page], r.page, r.results, r.cache, max)
             ELSE [results |-> r.results, cache |-> r.cache, raised |-> TRUE]
        e == IF res = "response" THEN "ValueError" ELSE res
        q == [r EXCEPT !.results = p.results, !.cache = p.cache,
                       !.fetched = IF res = "response" THEN @ + 1 ELSE @]
    IN IF ~p.raised
       THEN PageLoop([q EXCEPT !.parsed = @ + 1], r.page + 1, max)
       ELSE IF ExceptException(e)
            THEN PageLoop([q EXCEPT !.absorbed = TRUE], r.page + 1, max)
            ELSE PrimaryOuterExcept(q, e)

\* The request of search_bing_images is over, res being how it ended;
\* search_images returns.
AfterBing(r, res, page, max) ==
    LET found == IF res = "response" THEN BingExtract(page, max) ELSE <<>>
    IN IF res /= "response" /\ ~ExceptException(res)
       THEN Raised(r)
       ELSE [r EXCEPT !.stage = "ret", !.results = found, !.cache = {},
                      !.got = [NoGot EXCEPT !.res = res],
                      !.absorbed = (@ \/ res /= "response"),
                      !.fallbackEmpty = (found = <<>>),
                      !.engine = IF found /= <<>> THEN "Bing" ELSE "None"]

\* Enter _make_request from inside a search, or go back to the caller of
\* search_images.
Proceed(t, r) ==
    /\ sr' = [sr EXCEPT ![t] = r]
    /\ IF r.stage \in {"ret", "raised", "fetched"}
       THEN /\ th' = [th EXCEPT ![t] = IdleThread]
            /\ gh' = [gh EXCEPT ![t] = FreshCall(0)]
       ELSE /\ th' = [th EXCEPT ![t] = [IdleThread EXCEPT !.pc = "attempt"]]
            /\ gh' = [gh EXCEPT ![t] = FreshCall(rate_limit_count)]

StartSearch(t) ==
    /\ th[t].pc = "idle"
    /\ sr[t].stage \in {"none", "ret", "raised"}
    /\ calls[t] > 0
    /\ calls' = [calls EXCEPT ![t] = @ - 1]
    /\ Proceed(t, SearchEntered)
    /\ UNCHANGED <<proxies, current_proxy_index, failed_proxies, rate_limit_count, acq,
                   crossed, inp>>

VqdReturn(t) ==
    /\ th[t].pc = "done"
    /\ sr[t].stage = "vqd"
    /\ Proceed(t, AfterVqd(sr[t], th[t].result, inp.max_results))
    /\ UNCHANGED <<proxies, current_proxy_index, failed_proxies, rate_limit_count, acq,
                   calls, crossed, inp>>

PageReturn(t) ==
    /\ th[t].pc = "done"
    /\ sr[t].stage = "page"
    /\ Proceed(t, AfterPage(sr[t], th[t].result, inp.pages, inp.max_results))
    /\ UNCHANGED <<proxies, current_proxy_index, failed_proxies, rate_limit_count, acq,
                   calls, crossed, inp>>

BingReturn(t) ==
    /\ th[t].pc = "done"
    /\ sr[t].stage = "bing"
    /\ Proceed(t, AfterBing(sr[t], th[t].result, inp.bing, inp.max_results))
    /\ UNCHANGED <<proxies, current_proxy_index, failed_proxies, rate_limit_count, acq,
                   calls, crossed, inp>>

Search(t) == StartSearch(t) \/ VqdReturn(t) \/ PageReturn(t) \/ BingReturn(t)

\* ------------------------------------------------ fetch_image_from_url
\* The content-type header of a response: a sequence of pieces such as
\* <<"image/", "png">>, or absent.
Header(v) == [present |-> TRUE, val |-> v]
\* response.headers.get('content-type', '')
GetHeader(h) == IF h.present THEN h.val ELSE <<>>

\* The content-type test that lets a response without the header through.
IsImageOrUntyped(ct) == ct = <<>> \/ StartsWith(ct, <<"image/">>)

\* content_type.startswith('image/')
IsImage(ct) == StartsWith(ct, <<"image/">>)

\* fetch_image_from_url entered: its one call of _make_request
FetchEntered == [NoSearch EXCEPT !.stage = "fetch", !.requests = 1]

\* _make_request is over, res being how it ended; ct is the content-type
\* header of the response and read says whether reading response.content
\* (the body of a stream=True response) succeeds.
AfterFetch(r, res, ct, read) ==
    LET q == [r EXCEPT !.got = [res |-> res, ct |-> ct, read |-> read]]
        e == IF res = "response" THEN "RequestException" ELSE res
    IN IF res = "response" /\ ~IsImage(GetHeader(ct))
       THEN [q EXCEPT !.stage = "fetched", !.data = None, !.error = "mismatch"]
       ELSE IF res = "response" /\ read
       THEN [q EXCEPT !.stage = "fetched", !.data = "bytes", !.error = None]
       ELSE IF ExceptException(e)
       THEN [q EXCEPT !.stage = "fetched", !.data = None, !.error = e,
                      !.absorbed = TRUE]
       ELSE Raised(q)

ContentTypes ==
    {NoHeader, Header(<<>>), Header(<<"image/", "png">>), Header(<<"text/", "html">>),
     Header(<<"Image/", "png">>)}

StartFetch(t) ==
    /\ th[t].pc = "idle"
    /\ sr[t].stage \in {"none", "fetched", "raised"}
    /\ calls[t] > 0
    /\ calls' = [calls EXCEPT ![t] = @ - 1]
    /\ Proceed(t, FetchEntered)
    /\ UNCHANGED <<proxies, current_proxy_index, failed_proxies, rate_limit_count, acq,
                   crossed, inp>>

FetchReturn(t) ==
    /\ th[t].pc = "done"
    /\ sr[t].stage = "fetch"
    /\ \E ct \in (IF th[t].result = "response" THEN ContentTypes ELSE {NoHeader}) :
       \E read \in (IF th[t].result = "response" /\ IsImage(GetHeader(ct))
                     THEN BOOLEAN ELSE {FALSE}) :
           Proceed(t, AfterFetch(sr[t], th[t].result, ct, read))
    /\ UNCHANGED <<proxies, current_proxy_index, failed_proxies, rate_limit_count, acq,
                   calls, crossed, inp>>

Fetch(t) == StartFetch(t) \/ FetchReturn(t)

InitFetch ==
    /\ Constructed
    /\ calls = [t \in Threads |-> IF t = "t1" THEN FetchCalls ELSE 0]
    /\ inp = NoInput

NextFetch == \E t \in {"t1"} : Fetch(t) \/ Exec(t)
SpecFetch == InitFetch /\ [][NextFetch]_vars

\* ------------------------------------------------- upstream answers
IntDim(n) == [kind |-> "int", val |-> n]
Missing == [kind |-> "missing", val |-> 0]
Bad == [kind |-> "bad", val |-> 0]
Row(image, thumbnail, url, height, width) ==
    [image |-> image, thumbnail |-> thumbnail, url |-> url, height |-> height,
     width |-> width]
Body(rows) == [ok |-> TRUE, rows |-> rows]
BadBody == [ok |-> FALSE, rows |-> <<>>]

Num(n) == [kind |-> "num", val |-> n]
Absent == [kind |-> "absent", val |-> 0]
Text == [kind |-> "text", val |-> 0]
Img(src, width, height, alt) == [src |-> src, width |-> width, height |-> height, alt |-> alt]
Script(marker, matches) == [marker |-> marker, matches |-> matches]
Match(murl, turl, t) == [murl |-> murl, turl |-> turl, t |-> t]
BingPage(scripts, imgs) == [scripts |-> scripts, imgs |-> imgs]

\* ------------------------- a search with everything it calls (C1, C2)
RowA == Row(<<"a">>, <<"//", "t">>, <<"https:", "//", "u">>, IntDim(5), IntDim(7))
SearchBodies == {BadBody, Body(<<>>), Body(<<RowA>>)}
SearchBingPages ==
    { BingPage(<<>>, <<>>),
      BingPage(<<Script(TRUE, <<Match(<<"https:", "//", "m">>, <<"https:", "//", "n">>, "")>>)>>,
               <<>>) }

InitSearch ==
    /\ Constructed
    /\ calls = [t \in Threads |-> IF t = "t1" THEN SearchCalls ELSE 0]
    /\ inp \in [pages : SearchBodies \X {Body(<<RowA>>)},
                bing : SearchBingPages, max_results : {0, 1}]

NextSearch == \E t \in {"t1"} : Search(t) \/ Exec(t)
SpecSearch == InitSearch /\ [][NextSearch]_vars


\* ------------- the extractors alone, over richer upstream answers
\* _make_request is taken as a call that ends in any of its ways.
ExecResults == {"response", "HTTPError", "ProxyError", "RequestException", "IndexError"}

ExtractStart ==
    /\ sr["t1"].stage = "none"
    /\ sr' = [sr EXCEPT !["t1"] = SearchEntered]
    /\ UNCHANGED <<proxies, current_proxy_index, failed_proxies, rate_limit_count, acq,
                   th, gh, calls, crossed, inp>>

ExtractVqd ==
    /\ sr["t1"].stage = "vqd"
    /\ \E res \in ExecResults :
         sr' = [sr EXCEPT !["t1"] = AfterVqd(@, res, inp.max_results)]
    /\ UNCHANGED <<proxies, current_proxy_index, failed_proxies, rate_limit_count, acq,
                   th, gh, calls, crossed, inp>>

ExtractPage ==
    /\ sr["t1"].stage = "page"
    /\ \E res \in ExecResults :
         sr' = [sr EXCEPT !["t1"] = AfterPage(@, res, inp.pages, inp.max_results)]
    /\ UNCHANGED <<proxies, current_proxy_index, failed_proxies, rate_limit_count, acq,
                   th, gh, calls, crossed, inp>>

ExtractBing ==
    /\ sr["t1"].stage = "bing"
    /\ \E res \in ExecResults :
         sr' = [sr EXCEPT !["t1"] = AfterBing(@, res, inp.bing, inp.max_results)]
    /\ UNCHANGED <<proxies, current_proxy_index, failed_proxies, rate_limit_count, acq,
                   th, gh, calls, crossed, inp>>

NextExtract == ExtractStart \/ ExtractVqd \/ ExtractPage \/ ExtractBing

\* Rows: a bare, a protocol-relative, an https and an http image URL, a row
\* without image, and a row whose height int() rejects.
PrimaryRows ==
    { Row(<<"a">>, <<"//", "t">>, <<"https:", "//", "u">>, IntDim(5), IntDim(7)),
      Row(<<"//", "a">>, <<>>, <<>>, Missing, IntDim(7)),
      Row(<<"https:", "//", "a">>, <<"https:", "//", "t">>, <<"https:", "//", "u">>,
          IntDim(5), Missing),
      Row(<<"http:", "//", "b">>, <<"http:", "//", "t">>, <<"u">>, IntDim(5), IntDim(7)),
      Row(<<>>, <<"//", "t">>, <<"https:", "//", "u">>, IntDim(5), IntDim(7)),
      Row(<<"c">>, <<"//", "t">>, <<"https:", "//", "u">>, Bad, IntDim(7)) }
PrimaryBodies == {BadBody} \cup {Body(rows) : rows \in SeqsUpTo(PrimaryRows, MaxRows)}

\* The pool and the executor stay as constructed with an empty proxy list.
InitPrimary ==
    /\ Constructed
    /\ proxies = <<>>
    /\ calls = [t \in Threads |-> 0]
    /\ inp \in [pages : PrimaryBodies \X PrimaryBodies, bing : {BingPage(<<>>, <<>>)},
                max_results : 0..MaxResults]

SpecPrimary == InitPrimary /\ [][NextExtract]_vars

\* ------------- the fallback extractor over richer pages
\* The primary provider answers nothing usable, so search_images goes on
\* to search_bing_images.
MatchM == Match(<<"https:", "//", "m">>, <<"https:", "//", "n">>, "")
MatchT == Match(<<"http:", "//", "m">>, <<"//", "n">>, "t")
MatchX == Match(<<"m", "\\u0026", "x">>, <<"n">>, "")
FallbackMatches == {MatchM, MatchT, MatchX}
\* Pages with two scripts: the first with the marker and no match, without
\* the marker, or with a match of its own; and one script with three matches.
FallbackScripts ==
    {<<>>, <<Script(TRUE, <<>>)>>}
      \cup {<<Script(FALSE, <<m>>)>> : m \in FallbackMatches}
      \cup {<<Script(TRUE, ms)>> : ms \in SeqsUpTo(FallbackMatches, 2) \ {<<>>}}
      \cup { <<Script(TRUE, <<>>), Script(TRUE, <<MatchM>>)>>,
              <<Script(FALSE, <<MatchT>>), Script(TRUE, <<MatchM>>)>>,
              <<Script(TRUE, <<MatchT>>), Script(TRUE, <<MatchM>>)>>,
              <<Script(TRUE, <<MatchM, MatchT, MatchX>>)>> }
\* img elements: a large one, an embedded one, a narrow one, one without
\* dimensions, an icon, one whose width is not a digit string, one with an
\* empty src, and one that declares only its height.
FallbackImgs ==
    { Img(<<"https:", "//", "x">>, Num(200), Num(200), "alt"),
      Img(<<"data:", "x">>, Num(200), Num(200), "alt"),
      Img(<<"//", "x">>, Num(50), Num(200), "absent"),
      Img(<<"a">>, Absent, Absent, "absent"),
      Img(<<"https:", "//", "icon">>, Num(200), Num(200), "alt"),
      Img(<<"http:", "//", "h">>, Text, Num(50), "alt"),
      Img(<<>>, Num(200), Num(200), "alt"),
      Img(<<"https:", "//", "y">>, Absent, Num(200), "alt") }
FallbackPages ==
    {BingPage(sc, im) : sc \in FallbackScripts, im \in SeqsUpTo(FallbackImgs, MaxImgs)}

InitFallback ==
    /\ Constructed
    /\ proxies = <<>>
    /\ calls = [t \in Threads |-> 0]
    /\ inp \in [pages : {<<BadBody, BadBody>>}, bing : FallbackPages,
                max_results : 0..MaxResults]

SpecFallback == InitFallback /\ [][NextExtract]_vars

\* ------------------------------------------- _normalize_url on its own
\* "/a" is a piece that begins with a single slash.
UrlPieces == {"https:", "http:", "//", "data:", "a", "/a"}
Urls == SeqsUpTo(UrlPieces, MaxUrlLen)

\* inp holds the string given and the values of successive applications.
InitNormalize ==
    /\ Constructed
    /\ proxies = <<>>
    /\ calls = [t \in Threads |-> 0]
    /\ inp \in [url : Urls, outs : {<<>>}]

Normalize ==
    /\ Len(inp.outs) < MaxApply
    /\ inp' = [inp EXCEPT !.outs =
                 Append(@, NormalizeUrl(IF @ = <<>> THEN inp.url ELSE @[Len(@)]))]
    /\ UNCHANGED <<proxies, current_proxy_index, failed_proxies, rate_limit_count, acq,
                   th, gh, calls, crossed, sr>>

NextNormalize == Normalize
SpecNormalize == InitNormalize /\ [][NextNormalize]_vars

\* ======================================================================
\* Properties
\* ======================================================================

\* C3: after any sequence of load, acquire, mark_failed and rotate, an
\* endpoint returned by acquire is not in the failed set when it is returned,
\* unless every loaded endpoint is failed; and after an acquire that
\* reloaded, the failed set is empty.
C3_AcquireAvoidsFailed ==
    acq.called =>
        /\ (~acq.raised /\ acq.ret /= None) =>
              (acq.ret \notin failed_proxies \/ Range(proxies) \subseteq failed_proxies)
        /\ acq.reloads > 0 => failed_proxies = {}
\* acquire has passed over a failed endpoint and returned a working one
C3_Witness ==
    /\ acq.called /\ acq.ret /= None /\ acq.reloads = 0
    /\ failed_proxies /= {}
    /\ ~(Range(proxies) \subseteq failed_proxies)

\* C4: acquire always completes, with an endpoint of the loaded list or
\* none, so that every attempt of _make_request that consults the pool goes
\* on to issue its request.
C4_AcquireAlwaysReturns ==
    \A t \in Threads :
        /\ th[t].result /= "IndexError"
        /\ (th[t].pc = "request" /\ gh[t].consulted) =>
              th[t].current_proxy \in Range(proxies) \cup {None}

\* C5: the failed set is a subset of the loaded endpoint sequence, also when
\* several _make_request calls run at once.
C5_FailedSubsetOfLoaded == failed_proxies \subseteq Range(proxies)

\* C6: a call of _make_request issues at most 3 requests; a new iteration
\* starts only after fewer than 3, and the call ends with a response or with
\* an exception for its caller.
C6_AtMostThreeAttempts ==
    \A t \in Threads :
        /\ gh[t].nreq <= 3
        /\ th[t].pc = "attempt" => gh[t].nreq < 3
        /\ th[t].pc = "done" =>
              th[t].result \in {"response", "HTTPError", "ProxyError",
                                "RequestException", "IndexError"}
\* a call that ended after its third request
C6_Witness == \E t \in Threads : th[t].pc = "done" /\ gh[t].nreq = 3

\* C7 as stated: a call that receives k < 3 throttling statuses and then a
\* 200 returns after k rotations and k sleeps with the counter at
\* initial + k - 1.
C7_CounterInitialPlusKMinusOne ==
    (th["t1"].pc = "done" /\ th["t1"].result = "response" /\ gh["t1"].clean) =>
        /\ gh["t1"].nrot = gh["t1"].nthrot
        /\ gh["t1"].nsleep = gh["t1"].nthrot
        /\ rate_limit_count = gh["t1"].init + gh["t1"].nthrot - 1

\* C7 amended: ... with the counter at max(0, initial + k - 1).
C7_CounterFlooredInitialPlusKMinusOne ==
    (th["t1"].pc = "done" /\ th["t1"].result = "response" /\ gh["t1"].clean) =>
        /\ gh["t1"].nthrot < 3
        /\ gh["t1"].nrot = gh["t1"].nthrot
        /\ gh["t1"].nsleep = gh["t1"].nthrot
        /\ rate_limit_count =
              IF gh["t1"].init + gh["t1"].nthrot - 1 >= 0
              THEN gh["t1"].init + gh["t1"].nthrot - 1 ELSE 0
\* 429, 429, 200 from a counter above 0
C7_Witness ==
    /\ th["t1"].pc = "done" /\ th["t1"].result = "response" /\ gh["t1"].clean
    /\ gh["t1"].nthrot = 2 /\ gh["t1"].nrot = 2 /\ gh["t1"].nsleep = 2
    /\ gh["t1"].init = 1 /\ rate_limit_count = 2

\* C8: the counter is never negative, whatever the interleaving of calls,
\* and a success that found the counter at 0 writes 0.
C8_CounterNonNegative ==
    /\ [](rate_limit_count >= 0)
    /\ [][\A t \in Threads :
            (th[t].pc = "dec" /\ th'[t].pc = "done" /\ th[t].tmp = 0)
                => rate_limit_count' = 0]_vars
\* a 200 on the first attempt of a call entered with the counter at 0
C8_Witness ==
    \E t \in Threads :
        /\ th[t].pc = "done" /\ th[t].result = "response" /\ gh[t].clean
        /\ gh[t].init = 0 /\ gh[t].nthrot = 0 /\ rate_limit_count = 0

\* C9: an attempt calls get_proxy, and attaches a proxy to its request, only
\* if the counter is above 2 when the attempt starts; as long as the counter
\* has never been above 2 no attempt has consulted the pool and no request
\* carries a proxy.
C9_ProxyOnlyAboveThreshold ==
    /\ [][\A t \in Threads :
            (th[t].pc = "attempt" /\ th'[t].pc /= "attempt"
                /\ (gh'[t].consulted \/ th'[t].kwargs /= th[t].kwargs))
                => rate_limit_count > 2]_vars
    /\ [](\A t \in Threads :
            (gh[t].consulted \/ th[t].kwargs /= None) => crossed)
\* a request in flight through a proxy the attempt acquired
C9_Witness ==
    \E t \in Threads :
        th[t].pc = "request" /\ gh[t].consulted /\ th[t].kwargs /= None

\* C1: search_images returns engine DuckDuckGo exactly when
\* search_duckduckgo_images returned results, and then search_bing_images
\* was not run; Bing exactly when the primary result was empty and the
\* fallback one was not; None exactly when both were empty, and then with no
\* results.  Each extractor runs at most once, the primary one first.
C1_EngineFollowsExtractors ==
    \A t \in Threads :
        /\ sr[t].primary <= 1 /\ sr[t].fallback <= 1
        /\ sr[t].fallback > 0 => (sr[t].primary = 1 /\ sr[t].primaryEmpty)
        /\ sr[t].stage = "ret" =>
              /\ sr[t].primary = 1
              /\ (sr[t].engine = "DuckDuckGo") <=> ~sr[t].primaryEmpty
              /\ sr[t].engine = "DuckDuckGo" => (sr[t].fallback = 0 /\ sr[t].results /= <<>>)
              /\ (sr[t].engine = "Bing") <=>
                    (sr[t].primaryEmpty /\ sr[t].fallback = 1 /\ ~sr[t].fallbackEmpty)
              /\ sr[t].engine = "Bing" => sr[t].results /= <<>>
              /\ (sr[t].engine = "None") <=>
                    (sr[t].primaryEmpty /\ sr[t].fallback = 1 /\ sr[t].fallbackEmpty)
              /\ sr[t].engine = "None" => sr[t].results = <<>>
\* a search that the fallback extractor satisfied
C1_Witness ==
    \E t \in Threads :
        sr[t].stage = "ret" /\ sr[t].engine = "Bing" /\ sr[t].primaryEmpty

\* C2: no exception leaves search_images, whatever the requests of token
\* acquisition, pages and fallback do and whatever the parsing does; the
\* call returns an outcome.
C2_SearchNeverRaises ==
    \A t \in Threads :
        /\ sr[t].stage /= "raised"
        /\ sr[t].stage = "ret" => sr[t].engine \in {"DuckDuckGo", "Bing", "None"}
\* a search that returned nothing after catching an exception
C2_Witness ==
    \E t \in Threads :
        sr[t].stage = "ret" /\ sr[t].absorbed /\ sr[t].engine = "None"

\* C10: the results search_duckduckgo_images returns hold no two equal image
\* URLs, and they come in the order of the rows of page 0 then page 100
\* that produced them.
Precedes(a, b) == a[1] < b[1] \/ (a[1] = b[1] /\ a[2] < b[2])
C10_NoDuplicateImageUrls ==
    (sr["t1"].stage = "ret" /\ sr["t1"].engine = "DuckDuckGo") =>
        LET res == sr["t1"].results
        IN \A i \in 1..Len(res) : \A j \in 1..Len(res) :
              i < j => /\ res[i].image /= res[j].image
                       /\ Precedes(res[i].at, res[j].at)

\* C11: when every page search_duckduckgo_images asked for was fetched and
\* processed without an exception, it returns min(max_results, D) results,
\* D being the number of distinct non-empty image values of page 0 and page
\* 100; it never holds more than max_results results, and it asks for the
\* second page only while it holds fewer than max_results.
DistinctImages(pages) ==
    Cardinality(UNION {{pages[p].rows[k].image : k \in 1..Len(pages[p].rows)} :
                          p \in 1..Len(pages)} \ {<<>>})
PrimaryDone(r) ==
    \/ r.stage = "bing"
    \/ r.stage = "ret" /\ r.engine = "DuckDuckGo"
C11_PrimaryReturnsMinOfMaxAndDistinct ==
    LET r == sr["t1"]
    IN /\ r.stage \in {"vqd", "page", "bing"} \/ PrimaryDone(r) =>
             Len(r.results) <= inp.max_results
       /\ (r.stage = "page" /\ r.page = 2) => Len(r.results) < inp.max_results
       /\ (PrimaryDone(r) /\ r.parsed = r.page) =>
             Len(r.results) = Min(inp.max_results, DistinctImages(inp.pages))
\* two pages of two distinct images each, max_results 3: three results
C11_Witness ==
    LET r == sr["t1"]
    IN /\ r.stage = "ret" /\ r.engine = "DuckDuckGo"
       /\ r.page = 2 /\ r.parsed = 2
       /\ DistinctImages(inp.pages) = 4 /\ inp.max_results = 3
       /\ Len(r.results) = 3

\* C12: _normalize_url applied twice gives what it gives applied once; a
\* string that starts with "https://" comes back unchanged, one that starts
\* with "//" comes back with "https:" in front, and any other non-empty
\* string that starts with neither "http://" nor "https://" comes back with
\* "https://" in front.
C12_NormalizeIdempotent ==
    LET u == inp.url
        o == inp.outs
    IN /\ \A i \in 2..Len(o) : o[i] = o[1]
       /\ Len(o) >= 1 =>
             /\ StartsWith(u, <<"https:", "//">>) => o[1] = u
             /\ StartsWith(u, <<"//">>) => o[1] = <<"https:">> \o u
             /\ (u /= <<>> /\ ~StartsWith(u, <<"//">>)
                   /\ ~StartsWith(u, <<"http:", "//">>)
                   /\ ~StartsWith(u, <<"https:", "//">>)) =>
                     o[1] = <<"https:", "//">> \o u
\* a protocol-relative string normalized twice
C12_Witness ==
    /\ inp.url = <<"//", "a">>
    /\ Len(inp.outs) = 2
    /\ inp.outs[2] = <<"https:", "//", "a">>

\* C13: the second method of search_bing_images returns no result built
\* from an img whose width and height are both digit strings with one of
\* them below 100, and no result built from an img whose src starts with
\* "data:".
FromImg(res) == inp.bing.imgs[res.at[2]]
BothNumericOneSmall(img) ==
    /\ img.width.kind = "num" /\ img.height.kind = "num"
    /\ (img.width.val < 100 \/ img.height.val < 100)
C13_StrategyBSkipsSmallAndData ==
    LET r == sr["t1"]
    IN (r.stage = "ret" /\ r.engine = "Bing") =>
          \A i \in 1..Len(r.results) :
              r.results[i].source = "Bing (fallback)" =>
                  /\ ~BothNumericOneSmall(FromImg(r.results[i]))
                  /\ ~StartsWith(FromImg(r.results[i]).src, <<"data:">>)
\* a result built from the second img, the first being narrow or embedded
C13_Witness ==
    LET r == sr["t1"]
    IN /\ r.stage = "ret" /\ r.engine = "Bing"
       /\ Len(r.results) = 1
       /\ r.results[1].source = "Bing (fallback)"
       /\ r.results[1].at[2] = 2
       /\ BothNumericOneSmall(inp.bing.imgs[1])

C15_OneIncrementPerThrottle ==
    (th["t1"].pc = "done" /\ gh["t1"].clean /\ gh["t1"].nthrot = 3) =>
        rate_limit_count = gh["t1"].init + 3

\* C16: a response with a status that raise_for_status rejects and that is
\* not 429, 403 or 503 (404, 500, ...) ends the call of _make_request with
\* the HTTPError: no sleep is taken and no further attempt is started for it.
C16_ErrorStatusNotRetried ==
    \A t \in Threads :
        gh[t].rejected =>
            /\ th[t].pc /= "attempt"
            /\ gh[t].lastSleep = "none"
            /\ th[t].pc = "done" => th[t].result = "HTTPError"

\* C17: when calls of _make_request run at once no update of the counter is
\* lost.  Taken for two first calls that each received only throttling
\* statuses and then a 200: with i throttling statuses in all, the counter
\* ends at a value that i increments and two floored decrements give in
\* some order, that is between max(0, i - 2) and i.
C17_NoLostCounterUpdate ==
    (\A t \in Threads :
        /\ calls[t] = ConcCalls - 1
        /\ th[t].pc = "done" /\ th[t].result = "response" /\ gh[t].clean) =>
        LET i == gh["t1"].nthrot + gh["t2"].nthrot
        IN rate_limit_count \in Max(0, i - 2)..i

\* C18: in search_duckduckgo_images a row whose height or width is missing
\* or is not something int() accepts still gives a result, with 0 for that
\* dimension, and the rows after it are processed: when every page asked
\* for came back and was decoded, there are min(max_results, D) results,
\* each with the dimensions of its row or 0.
RowOf(res) == inp.pages[res.at[1]].rows[res.at[2]]
C18_BadDimensionStillGivesResult ==
    LET r == sr["t1"]
    IN (/\ PrimaryDone(r) /\ r.fetched = r.page
        /\ \A p \in 1..r.page : inp.pages[p].ok) =>
          /\ Len(r.results) = Min(inp.max_results, DistinctImages(inp.pages))
          /\ \A i \in 1..Len(r.results) :
                /\ r.results[i].height = IntOrZero(RowOf(r.results[i]).height)
                /\ r.results[i].width = IntOrZero(RowOf(r.results[i]).width)

\* C19: the second method of search_bing_images skips an img for its size
\* only if it declares a digit-string width or height below 100.  Taken for
\* the first img of the page: if it has a src that is not empty, not a
\* "data:" one and not blacklisted, and declares neither width nor height,
\* then (the first method finding nothing and max_results being at least 1)
\* the first result is built from it, with height 0 and width 0.
C19_UndeclaredSizeIsReturned ==
    LET r == sr["t1"]
        imgs == inp.bing.imgs
    IN (/\ r.stage = "ret" /\ r.fallback = 1 /\ r.got.res = "response"
        /\ StrategyA(inp.bing.scripts, 1, inp.max_results) = <<>>
        /\ inp.max_results >= 1 /\ Len(imgs) >= 1
        /\ imgs[1].src /= <<>> /\ ~StartsWith(imgs[1].src, <<"data:">>)
        /\ ~Blacklisted(imgs[1].src)
        /\ imgs[1].width.kind = "absent" /\ imgs[1].height.kind = "absent") =>
          /\ r.results /= <<>>
          /\ r.results[1].at = <<0, 1>>
          /\ r.results[1].height = 0 /\ r.results[1].width = 0

\* C20: in every result search_images returns, from either extractor, the
\* image, the thumbnail and the url start with "https://", whatever the
\* provider sent for them ("http://" values, empty and missing ones too).
IsHttps(u) == StartsWith(u, <<"https:", "//">>)
C20_AllUrlsHttps ==
    LET r == sr["t1"]
    IN (r.stage = "ret" /\ r.engine \in {"DuckDuckGo", "Bing"}) =>
          \A i \in 1..Len(r.results) :
              /\ IsHttps(r.results[i].image)
              /\ IsHttps(r.results[i].thumbnail)
              /\ IsHttps(r.results[i].url)

\* C21: when the request of an attempt, sent through a proxy, fails with
\* ProxyError, _make_request marks that proxy failed, moves the cursor of
\* the pool on by one, leaves the counter as it is, and then sleeps one
\* second and retries if fewer than 3 requests were made, else raises the
\* ProxyError.
C21_ProxyErrorMarksRotatesRetries ==
    [][\A t \in Threads :
         (th[t].pc = "request" /\ th[t].kwargs /= None /\ gh'[t].proxyError) =>
            /\ th[t].kwargs \in failed_proxies'
            /\ proxies /= <<>>
            /\ current_proxy_index' = (current_proxy_index + 1) % Len(proxies)
            /\ rate_limit_count' = rate_limit_count
            /\ IF gh[t].nreq < 3
               THEN th'[t].pc = "attempt" /\ gh'[t].lastSleep = "1"
               ELSE th'[t].pc = "done" /\ th'[t].result = "ProxyError"]_vars

\* C22: in search_bing_images the img scan runs only if the script scan
\* found nothing.  The script scan takes its results from the first script,
\* in document order, that has the marker and at least one match, and from
\* no later one; it gives at most max_results results, one per match in
\* order, titled "<query> image" where the title group is empty.
Hits(scripts) ==
    {sc \in 1..Len(scripts) : scripts[sc].marker /\ scripts[sc].matches /= <<>>}
FirstHit(scripts) == CHOOSE h \in Hits(scripts) : \A g \in Hits(scripts) : h <= g
C22_FirstMatchingScriptThenImgs ==
    LET r == sr["t1"]
        scripts == inp.bing.scripts
        max == inp.max_results
    IN (r.stage = "ret" /\ r.fallback = 1 /\ r.got.res = "response") =>
          /\ Len(r.results) <= max
          /\ (\E i \in 1..Len(r.results) : r.results[i].source = "Bing (fallback)") =>
                (Hits(scripts) = {} /\
                 \A i \in 1..Len(r.results) : r.results[i].source = "Bing (fallback)")
          /\ (Hits(scripts) /= {} /\ max >= 1) =>
                LET h == FirstHit(scripts)
                    ms == scripts[h].matches
                IN /\ Len(r.results) = Min(max, Len(ms))
                   /\ \A i \in 1..Len(r.results) :
                         /\ r.results[i].source = "Bing"
                         /\ r.results[i].at = <<h, i>>
                         /\ r.results[i].title =
                               IF ms[i].t = "" THEN DefaultTitle ELSE ms[i].t
\* three matches in one script, max_results 3: three results, the first
\* and the third with the default title
C22_Witness ==
    LET r == sr["t1"]
    IN /\ r.stage = "ret" /\ r.engine = "Bing" /\ r.got.res = "response"
       /\ inp.bing.scripts = <<Script(TRUE, <<MatchM, MatchT, MatchX>>)>>
       /\ inp.bing.imgs /= <<>>
       /\ Len(r.results) = 3
       /\ r.results[1].title = DefaultTitle /\ r.results[2].title = "t"
       /\ r.results[3].title = DefaultTitle

\* C23: a request of _make_request that goes through a proxy goes through
\* the endpoint get_proxy returned in that same attempt; when get_proxy
\* returned None in the attempt the request carries no proxy.
C23_ProxyIsTheOneJustAcquired ==
    \A t \in Threads :
        (th[t].pc = "request" /\ th[t].kwargs /= None) =>
            (gh[t].consulted /\ th[t].kwargs = th[t].current_proxy)

\* C24 as stated: once self.proxies is empty it stays empty; every get_proxy
\* from then on returns None without a reload, rotate_proxy and
\* mark_proxy_failed leave the list alone, and no request of _make_request
\* goes through a proxy any more.
EmptyPoolStaysEmpty ==
    [][proxies = <<>> =>
         /\ proxies' = <<>>
         /\ \A t \in Threads :
              /\ (th[t].pc = "attempt" /\ gh'[t].consulted) =>
                    /\ th'[t].pc = "request"
                    /\ th'[t].current_proxy = None
                    /\ gh'[t].reloads = 0
              /\ th'[t].kwargs /= th[t].kwargs => th'[t].kwargs = None]_vars
====
